---- MODULE Spec2Model ----
(***************************************************************************)
(* A model of the log-structured key-value store KvStore (src/src/lib.rs). *)
(*                                                                         *)
(* The log file is modelled byte by byte: a record is the MessagePack      *)
(* array that rmp_serde writes for the internally tagged enum LogEntry,    *)
(* and an offset is a byte offset into the file.  Reading a record at an   *)
(* offset parses the bytes found there, so an offset that is not the start *)
(* of a record, or that lies at or past the end of the file, is a decode   *)
(* failure, as in the program.                                             *)
(*                                                                         *)
(* CacheCapacity and CompactionThreshold stand for the program's 100 and   *)
(* 1000 (lib.rs:108 and lib.rs:181); they are scaled down so that eviction *)
(* and compaction happen within the explored state space.                  *)
(***************************************************************************)
EXTENDS Integers, Sequences, FiniteSets, TLC

\* ------------------------------------------------------------------ bounds
Keys == {"a", "b"}
Values == {"1", "2"}
CacheCapacity == 1
CompactionThreshold == 1
MaxLogBytes == 45
MaxAbortedBytes == 63
MaxStoredRecords == 2
TornBytes == 4

VARIABLES
    log,        \* bytes of the file at self.path, which self.log is open on
    bak,        \* bytes of the temporary file path.with_extension("bak")
    index,      \* self.index: key -> byte offset
    cache,      \* self.cache: sequence of <<key, value>>, least recent first
    counter,    \* self.compaction_counter
    truth,      \* history: key -> value most recently set (removed keys absent)
    everSet,    \* history: the keys that set has been called on
    allOk,      \* history: every operation so far returned Ok
    rewritten,  \* history: this store instance has completed a compaction
    last        \* history: the operation just performed and its outcome

vars == <<log, bak, index, cache, counter, truth, everSet, allOk, rewritten, last>>

None == "None"

\* ----------------------------------------------------------- record codec
SetEntry(key, value) == [type |-> "Set", key |-> key, value |-> value]

RemoveEntry(key) == [type |-> "Remove", key |-> key, value |-> None]

\* A string of the model is one character long: its MessagePack form is the
\* fixstr marker 0xa1 followed by the character.
EncodeStr(s) == <<"a1", s>>

TagSet == <<"a3", "S", "e", "t">>

TagRemove == <<"a6", "R", "e", "m", "o", "v", "e">>

\* rmp_serde::encode::write of a LogEntry: a fixarray holding the tag and
\* then the fields, in declaration order.
Encode(entry) ==
    IF entry.type = "Set"
    THEN <<"93">> \o TagSet \o EncodeStr(entry.key) \o EncodeStr(entry.value)
    ELSE <<"92">> \o TagRemove \o EncodeStr(entry.key)

DecodeFailure == [ok |-> FALSE, type |-> "-", key |-> "-", value |-> "-", size |-> 0]

\* The bytes of `bytes` from byte offset p (0-based), n of them; <<>> when
\* the file is too short.
BytesAt(bytes, p, n) ==
    IF p + n <= Len(bytes) THEN SubSeq(bytes, p + 1, p + n) ELSE <<>>

\* rmp_serde::decode::from_read of one LogEntry at byte offset p.
DecodeAt(bytes, p) ==
    LET hdr == BytesAt(bytes, p, 1)
    IN  IF hdr = <<"93">>
        THEN LET body == BytesAt(bytes, p + 1, 8)
             IN  IF /\ Len(body) = 8
                    /\ SubSeq(body, 1, 4) = TagSet
                    /\ body[5] = "a1"
                    /\ body[7] = "a1"
                 THEN [ok |-> TRUE, type |-> "Set", key |-> body[6],
                       value |-> body[8], size |-> 9]
                 ELSE DecodeFailure
        ELSE IF hdr = <<"92">>
        THEN LET body == BytesAt(bytes, p + 1, 9)
             IN  IF /\ Len(body) = 9
                    /\ SubSeq(body, 1, 7) = TagRemove
                    /\ body[8] = "a1"
                 THEN [ok |-> TRUE, type |-> "Remove", key |-> body[9],
                       value |-> None, size |-> 10]
                 ELSE DecodeFailure
        ELSE DecodeFailure

\* ------------------------------------------------------------ index (map)
EmptyMap == [k \in {} |-> 0]

MapInsert(m, k, v) == [x \in (DOMAIN m) \cup {k} |-> IF x = k THEN v ELSE m[x]]

\* A remove that leaves the entry in place.
MapRemoveKeeps(m, k) == m

MapRemove(m, k) == [x \in (DOMAIN m) \ {k} |-> m[x]]

\* ------------------------------------------------------------- LRU cache
CacheKeys(c) == {c[i][1] : i \in 1..Len(c)}

CacheValue(c, k) == LET i == CHOOSE i \in 1..Len(c) : c[i][1] = k IN c[i][2]

CacheWithout(c, k) == SelectSeq(c, LAMBDA e : e[1] # k)

\* LruCache::get on a hit: the entry becomes the most recently used.
CachePromote(c, k) == Append(CacheWithout(c, k), <<k, CacheValue(c, k)>>)

\* LruCache::put: insert or overwrite as most recently used; a new key in a
\* full cache evicts the least recently used entry.
CachePut(c, k, v) ==
    IF k \in CacheKeys(c)
    THEN Append(CacheWithout(c, k), <<k, v>>)
    ELSE IF Len(c) >= CacheCapacity
         THEN Append(Tail(c), <<k, v>>)
         ELSE Append(c, <<k, v>>)

\* A pop that leaves the entry in place.
CachePopSkipped(c, k) == c

\* LruCache::pop
CachePop(c, k) == CacheWithout(c, k)

\* ------------------------------------------------------------------ open
RECURSIVE ReplayKeepsRemoved(_, _, _)
\* A replay that does not erase the key of a Remove record.
ReplayKeepsRemoved(bytes, pointer, idx) ==
    LET d == DecodeAt(bytes, pointer)
    IN  IF ~d.ok THEN idx
        ELSE ReplayKeepsRemoved(bytes, pointer + d.size,
                                IF d.type = "Remove" THEN idx
                                ELSE MapInsert(idx, d.key, pointer))

RECURSIVE Replay(_, _, _)
\* The replay loop of open: decode from `pointer` until the first failure.
Replay(bytes, pointer, idx) ==
    LET d == DecodeAt(bytes, pointer)
    IN  IF ~d.ok THEN idx
        ELSE Replay(bytes, pointer + d.size,
                    IF d.type = "Remove" THEN MapRemove(idx, d.key)
                    ELSE MapInsert(idx, d.key, pointer))

\* ------------------------------------------------------- read_log_entry
\* [ret, out]: Ok with None for a Remove record, Ok with the value for a Set
\* record, DecodeError when the bytes at `pointer` are not a record.
ReadLogEntry(bytes, pointer) ==
    LET d == DecodeAt(bytes, pointer)
    IN  IF ~d.ok THEN [ret |-> "DecodeError", out |-> None]
        ELSE IF d.type = "Remove" THEN [ret |-> "Ok", out |-> None]
        ELSE [ret |-> "Ok", out |-> d.value]

\* ------------------------------------------------------------------- get
\* A get that does not cache the value it read from the log.
GetOpNoFill(c, idx, bytes, key) ==
    IF key \in CacheKeys(c)
    THEN [ret |-> "Ok", out |-> CacheValue(c, key), cache |-> CachePromote(c, key)]
    ELSE IF key \in DOMAIN idx
    THEN LET res == ReadLogEntry(bytes, idx[key])
         IN  [ret |-> res.ret, out |-> res.out, cache |-> c]
    ELSE [ret |-> "Ok", out |-> None, cache |-> c]

\* KvStore::get as a function of the store: its result and the cache after.
GetOp(c, idx, bytes, key) ==
    IF key \in CacheKeys(c)
    THEN [ret |-> "Ok", out |-> CacheValue(c, key), cache |-> CachePromote(c, key)]
    ELSE IF key \in DOMAIN idx
    THEN LET res == ReadLogEntry(bytes, idx[key])
         IN  IF res.ret # "Ok" THEN [ret |-> res.ret, out |-> None, cache |-> c]
             ELSE IF res.out = None THEN [ret |-> "Ok", out |-> None, cache |-> c]
             ELSE [ret |-> "Ok", out |-> res.out, cache |-> CachePut(c, key, res.out)]
    ELSE [ret |-> "Ok", out |-> None, cache |-> c]

\* --------------------------------------------------------- append_to_log
\* An append that takes the position after the write.
AppendPointsPastRecord(bytes, entry) ==
    [pointer |-> Len(bytes \o Encode(entry)), log |-> bytes \o Encode(entry)]

\* [pointer, log]: the record goes at the end of the file and its start
\* offset is the length of the file before the write.
AppendToLog(bytes, entry) ==
    [pointer |-> Len(bytes), log |-> bytes \o Encode(entry)]

\* --------------------------------------------------------------- compact
\* The orders in which `for (key, ptr) in &self.index` may visit the keys.
Orders(S) ==
    {o \in [1..Cardinality(S) -> S] : \A i, j \in DOMAIN o : i # j => o[i] # o[j]}

RECURSIVE Rewrite(_, _, _, _)
\* The loop of compact over the keys of `order`: [ok, out], where out is
\* what has been written to the temporary file when the loop ends or fails.
Rewrite(bytes, idx, order, out) ==
    IF order = <<>> THEN [ok |-> TRUE, out |-> out]
    ELSE LET key == Head(order)
             res == ReadLogEntry(bytes, idx[key])
         IN  IF res.ret # "Ok" THEN [ok |-> FALSE, out |-> out]
             ELSE IF res.out = None THEN Rewrite(bytes, idx, Tail(order), out)
             ELSE Rewrite(bytes, idx, Tail(order),
                          out \o Encode(SetEntry(key, res.out)))

\* The index after a compaction that ran to completion.
CompactedIndex(idx) == idx

\* The test that starts a rewrite, on the counter already incremented.
CompactionDue(cnt) == cnt > CompactionThreshold

\* A compact that resets the counter before it rewrites.
CompactResetsFirst(bytes, bk, idx, cnt, order) ==
    IF CompactionDue(cnt + 1)
    THEN LET w == Rewrite(bytes, idx, order, <<>>)
         IN  IF w.ok
             THEN [ret |-> "Ok", log |-> w.out, bak |-> <<>>,
                   index |-> CompactedIndex(idx), counter |-> 0,
                   ran |-> TRUE, done |-> TRUE]
             ELSE [ret |-> "DecodeError", log |-> bytes, bak |-> w.out,
                   index |-> idx, counter |-> 0,
                   ran |-> TRUE, done |-> FALSE]
    ELSE [ret |-> "Ok", log |-> bytes, bak |-> bk, index |-> idx,
          counter |-> cnt + 1, ran |-> FALSE, done |-> FALSE]

\* A compact that forgets to count the operation.
CompactSkipsCount(bytes, bk, idx, cnt, order) ==
    [ret |-> "Ok", log |-> bytes, bak |-> bk, index |-> idx,
     counter |-> cnt, ran |-> FALSE, done |-> FALSE]

\* KvStore::compact on a store whose file holds `bytes`: the outcome, the
\* file at self.path, the temporary file, the index and the counter after.
\* ran: a rewrite was started; done: it was renamed over the log.
Compact(bytes, bk, idx, cnt, order) ==
    IF CompactionDue(cnt + 1)
    THEN LET w == Rewrite(bytes, idx, order, <<>>)
         IN  IF w.ok
             THEN [ret |-> "Ok", log |-> w.out, bak |-> <<>>,
                   index |-> CompactedIndex(idx), counter |-> 0,
                   ran |-> TRUE, done |-> TRUE]
             ELSE [ret |-> "DecodeError", log |-> bytes, bak |-> w.out,
                   index |-> idx, counter |-> cnt + 1,
                   ran |-> TRUE, done |-> FALSE]
    ELSE [ret |-> "Ok", log |-> bytes, bak |-> bk, index |-> idx,
          counter |-> cnt + 1, ran |-> FALSE, done |-> FALSE]

\* ---------------------------------------------------------------- history
\* truth with key set to value, and with key forgotten.
Remember(m, key, value) ==
    [x \in (DOMAIN m) \cup {key} |-> IF x = key THEN value ELSE m[x]]

Forget(m, key) == [x \in (DOMAIN m) \ {key} |-> m[x]]

Outcome(op, key, val, ret, out, appended, compacted, readErr) ==
    [op |-> op, key |-> key, val |-> val, ret |-> ret, out |-> out,
     appended |-> appended, compacted |-> compacted, readErr |-> readErr]

\* The model explores files of at most MaxLogBytes bytes, and of at most
\* MaxAbortedBytes bytes once a compaction has aborted: from then on the
\* counter stays above the threshold and the file grows with every write.
RoomToAppend(entry) ==
    Len(log) + Len(Encode(entry)) <=
        IF counter > CompactionThreshold THEN MaxAbortedBytes ELSE MaxLogBytes

\* ------------------------------------------------------------------ state
Init ==
    /\ log = <<>>
    /\ bak = <<>>
    /\ index = Replay(log, 0, EmptyMap)
    /\ cache = <<>>
    /\ counter = 0
    /\ truth = EmptyMap
    /\ everSet = {}
    /\ allOk = TRUE
    /\ rewritten = FALSE
    /\ last = Outcome("open", "-", "-", "Ok", "-", 0, FALSE, FALSE)

\* A reopen that carried the counter over instead of starting from 0.
OpenKeepsCounter ==
    /\ index' = Replay(log, 0, EmptyMap)
    /\ cache' = <<>>
    /\ counter' = counter
    /\ rewritten' = FALSE
    /\ last' = Outcome("open", "-", "-", "Ok", "-", 0, FALSE, FALSE)
    /\ UNCHANGED <<log, bak, truth, everSet, allOk>>

\* Drop the store and open it again on the same path.
Open ==
    /\ index' = Replay(log, 0, EmptyMap)
    /\ cache' = <<>>
    /\ counter' = 0
    /\ rewritten' = FALSE
    /\ last' = Outcome("open", "-", "-", "Ok", "-", 0, FALSE, FALSE)
    /\ UNCHANGED <<log, bak, truth, everSet, allOk>>

Get(key) ==
    LET g == GetOp(cache, index, log, key)
    IN  /\ cache' = g.cache
        /\ last' = Outcome("get", key, "-", g.ret, g.out, 0, FALSE, g.ret # "Ok")
        /\ allOk' = (allOk /\ g.ret = "Ok")
        /\ UNCHANGED <<log, bak, index, counter, truth, everSet, rewritten>>

\* The guard of the first arm of the match in set: Ok(Some(v)) if v == value.
SetIsNoop(g, value) == g.ret = "Ok" /\ g.out = value

\* A write arm that does not cache the new value.
SetCacheSkipped(c, key, value) == c

\* The cache at the end of the write arm of set.
SetCache(c, key, value) == CachePut(c, key, value)

Set(key, value) ==
    LET g == GetOp(cache, index, log, key)
    IN  IF SetIsNoop(g, value)
        THEN /\ cache' = g.cache
             /\ truth' = Remember(truth, key, value)
             /\ everSet' = everSet \cup {key}
             /\ last' = Outcome("set", key, value, "Ok", "-", 0, FALSE, FALSE)
             /\ UNCHANGED <<log, bak, index, counter, allOk, rewritten>>
        ELSE /\ RoomToAppend(SetEntry(key, value))
             /\ LET a == AppendToLog(log, SetEntry(key, value))
                    index1 == MapInsert(index, key, a.pointer)
                    gErr == g.ret # "Ok"
                IN  /\ truth' = Remember(truth, key, value)
                    /\ everSet' = everSet \cup {key}
                    /\ IF key \notin DOMAIN index
                       THEN /\ log' = a.log
                            /\ index' = index1
                            /\ cache' = SetCache(g.cache, key, value)
                            /\ last' = Outcome("set", key, value, "Ok", "-", 1,
                                               FALSE, gErr)
                            /\ UNCHANGED <<bak, counter, allOk, rewritten>>
                       ELSE \E order \in Orders(DOMAIN index1) :
                              LET c == Compact(a.log, bak, index1, counter, order)
                              IN  /\ log' = c.log
                                  /\ bak' = c.bak
                                  /\ index' = c.index
                                  /\ counter' = c.counter
                                  /\ cache' = IF c.ret = "Ok"
                                              THEN SetCache(g.cache, key, value)
                                              ELSE g.cache
                                  /\ allOk' = (allOk /\ c.ret = "Ok")
                                  /\ rewritten' = (rewritten \/ c.done)
                                  /\ last' = Outcome("set", key, value, c.ret, "-", 1,
                                                     c.done, gErr \/ c.ret # "Ok")

\* A remove that counts a wasteful operation for an absent key too.
RemoveAbsentCounts(key) ==
    /\ last' = Outcome("remove", key, "-", "KeyNotFound", "-", 0, FALSE, FALSE)
    /\ allOk' = FALSE
    /\ counter' = counter + 1
    /\ UNCHANGED <<log, bak, index, cache, truth, everSet, rewritten>>

\* remove of a key that self.index does not hold.
RemoveAbsent(key) ==
    /\ last' = Outcome("remove", key, "-", "KeyNotFound", "-", 0, FALSE, FALSE)
    /\ allOk' = FALSE
    /\ UNCHANGED <<log, bak, index, cache, counter, truth, everSet, rewritten>>

\* remove of a key that self.index holds.
RemovePresent(key) ==
    /\ RoomToAppend(RemoveEntry(key))
    /\ LET index1 == MapRemove(index, key)
           a == AppendToLog(log, RemoveEntry(key))
       IN  \E order \in Orders(DOMAIN index1) :
             LET c == Compact(a.log, bak, index1, counter, order)
             IN  /\ log' = c.log
                 /\ bak' = c.bak
                 /\ index' = c.index
                 /\ counter' = c.counter
                 /\ cache' = CachePop(cache, key)
                 /\ truth' = Forget(truth, key)
                 /\ rewritten' = (rewritten \/ c.done)
                 /\ allOk' = (allOk /\ c.ret = "Ok")
                 /\ last' = Outcome("remove", key, "-", c.ret, "-", 1,
                                    c.done, c.ret # "Ok")
                 /\ UNCHANGED everSet

Remove(key) ==
    IF key \notin DOMAIN index THEN RemoveAbsent(key) ELSE RemovePresent(key)

Next ==
    \/ Open
    \/ \E key \in Keys : Get(key)
    \/ \E key \in Keys, value \in Values : Set(key, value)
    \/ \E key \in Keys : Remove(key)

Spec == Init /\ [][Next]_vars

\* ------------------------------------------------ files found at open
\* The records a file left by earlier runs may hold.
StoredEntries ==
    {SetEntry(k, v) : k \in Keys, v \in Values} \cup {RemoveEntry(k) : k \in Keys}

RECURSIVE EncodeAll(_)
EncodeAll(entries) ==
    IF entries = <<>> THEN <<>>
    ELSE Encode(Head(entries)) \o EncodeAll(Tail(entries))

\* Whole records written one after the other.
CleanFiles ==
    {EncodeAll(es) : es \in UNION {[1..n -> StoredEntries] : n \in 0..MaxStoredRecords}}

\* The first bytes of a record whose write was cut short.
TornRecords ==
    {SubSeq(Encode(e), 1, TornBytes) : e \in {SetEntry("a", "1"), RemoveEntry("b")}}

\* What may follow the whole records: nothing, a torn record, or a torn
\* record and a record that a later run appended behind it.
Damage ==
    {<<>>} \cup {t \o after : t \in TornRecords,
                              after \in {<<>>} \cup {Encode(e) : e \in StoredEntries}}

\* The store as open builds it on the file `bytes`.
OpenedOn(bytes) ==
    /\ log = bytes
    /\ bak = <<>>
    /\ index = Replay(log, 0, EmptyMap)
    /\ cache = <<>>
    /\ counter = 0
    /\ truth = [k \in DOMAIN index |-> DecodeAt(log, index[k]).value]
    /\ everSet = DOMAIN index
    /\ allOk = TRUE
    /\ rewritten = FALSE
    /\ last = Outcome("open", "-", "-", "Ok", "-", 0, FALSE, FALSE)

\* open on any file, then reads and reopens.
InitReplay == \E f \in CleanFiles, d \in Damage : OpenedOn(f \o d)

NextReplay ==
    \/ Open
    \/ \E key \in Keys : Get(key)

SpecReplay == InitReplay /\ [][NextReplay]_vars

\* open on a file that ends in a torn record, then every operation.
InitTorn ==
    \E f \in CleanFiles, t \in TornRecords :
        Len(f) > 0 /\ OpenedOn(f \o t)

SpecTorn == InitTorn /\ [][Next]_vars

\* The command-line front end: every invocation opens the store on data.log,
\* performs one set, get or rm, and drops the store when the process exits.
NextCli ==
    IF last.op = "open"
    THEN \E key \in Keys :
            \/ Get(key)
            \/ \E value \in Values : Set(key, value)
            \/ Remove(key)
    ELSE Open

SpecCli == Init /\ [][NextCli]_vars

\* ================================================================ claims
\* What get(key) returns in the current state.
GetNow(key) ==
    LET g == GetOp(cache, index, log, key) IN [ret |-> g.ret, out |-> g.out]

\* What get(key) returns once the store is dropped and opened again.
GetAfterReopen(key) ==
    LET g == GetOp(<<>>, Replay(log, 0, EmptyMap), log, key)
    IN  [ret |-> g.ret, out |-> g.out]

Returned(value) == [ret |-> "Ok", out |-> value]

\* C1: a set(k, v) that returns success is followed by get(k) = Some(v),
\* compaction or not.
ReadYourWrite ==
    (last.op = "set" /\ last.ret = "Ok") => GetNow(last.key) = Returned(last.val)

\* C1 witness: a successful set whose compaction ran to completion, so that
\* the offset it stored in the index refers to the replaced file.
ReadYourWriteWitness ==
    /\ last.op = "set" /\ last.ret = "Ok" /\ last.compacted
    /\ ~DecodeAt(log, index[last.key]).ok

\* C2: after a successful set(k, v) a reopened store returns Some(v) for k;
\* after a successful remove(k) a reopened store returns None for k.
DurableAcrossReopen ==
    /\ (last.op = "set" /\ last.ret = "Ok")
          => GetAfterReopen(last.key) = Returned(last.val)
    /\ (last.op = "remove" /\ last.ret = "Ok")
          => GetAfterReopen(last.key) = Returned(None)

\* C3: every offset in the index is the start of a Set record of the current
\* log with that key and the value most recently set for it.
IndexValid ==
    \A k \in DOMAIN index :
        LET d == DecodeAt(log, index[k])
        IN  /\ d.ok /\ d.type = "Set" /\ d.key = k
            /\ k \in DOMAIN truth /\ d.value = truth[k]

\* C4: get returns Ok(None) for a key never set and for a key whose latest
\* set or remove was a remove that took the key out of the store.
NeverSet(k) == k \notin everSet

RemovedLast(k) == k \in everSet /\ k \notin DOMAIN truth

AbsenceIsNotAnError ==
    \A k \in Keys : (NeverSet(k) \/ RemovedLast(k)) => GetNow(k) = Returned(None)

\* C4 witness: a successful remove, and another key never written, in a
\* store that has compacted.
AbsenceWitness ==
    /\ last.op = "remove" /\ last.ret = "Ok" /\ last.compacted
    /\ \E k \in Keys : NeverSet(k)

\* C5: remove of a key absent from the index returns KeyNotFound and leaves
\* the log, the temporary file, the index, the cache and the counter alone.
RemoveAbsentChangesNothing ==
    [][(last'.op = "remove" /\ last'.key \notin DOMAIN index)
          => /\ last'.ret = "KeyNotFound"
             /\ UNCHANGED <<log, bak, index, cache, counter>>]_vars

\* C5 witness: KeyNotFound returned by a store that holds another key, has
\* it cached and has counted an overwrite or a remove.
RemoveAbsentWitness ==
    /\ last.op = "remove" /\ last.ret = "KeyNotFound"
    /\ index # EmptyMap /\ cache # <<>> /\ counter > 0

\* C6: the second of two consecutive set(k, v) with the same k and v appends
\* nothing and leaves the log as it was.
WriteDeduplication ==
    [][(/\ last.op = "set" /\ last'.op = "set"
        /\ last'.key = last.key /\ last'.val = last.val)
          => (last'.appended = 0 /\ log' = log)]_vars

RECURSIVE Records(_, _)
\* The records of the maximal decodable prefix of `bytes` from offset p.
Records(bytes, p) ==
    LET d == DecodeAt(bytes, p)
    IN  IF ~d.ok THEN <<>> ELSE <<d>> \o Records(bytes, p + d.size)

RECURSIVE TotalSize(_)
TotalSize(recs) == IF recs = <<>> THEN 0 ELSE Head(recs).size + TotalSize(Tail(recs))

\* The key-to-value mapping that replaying `bytes` gives.
ReplayValues(bytes) ==
    LET idx == Replay(bytes, 0, EmptyMap)
    IN  [k \in DOMAIN idx |-> DecodeAt(bytes, idx[k]).value]

\* C7: a compaction that ran to completion leaves a log of exactly one Set
\* record per key of the index and no Remove record, each with the value most
\* recently set, and replaying it gives the mapping held before.
CompactionPreservesLiveData ==
    last.compacted =>
        LET recs == Records(log, 0)
        IN  /\ TotalSize(recs) = Len(log)
            /\ \A i \in DOMAIN recs : recs[i].type = "Set"
            /\ Len(recs) = Cardinality(DOMAIN index)
            /\ {recs[i].key : i \in DOMAIN recs} = DOMAIN index
            /\ \A i \in DOMAIN recs :
                   recs[i].key \in DOMAIN truth /\ recs[i].value = truth[recs[i].key]
            /\ ReplayValues(log) = truth

\* C8: once more distinct keys than the cache holds have been set, by
\* operations that all succeeded, get still returns the value most recently
\* set for every live key.
EvictionKeepsResults ==
    (allOk /\ Cardinality(everSet) > CacheCapacity)
        => \A k \in DOMAIN truth : GetNow(k) = Returned(truth[k])

\* C9: every key in the cache is in the index.
CacheSubsetOfIndex == CacheKeys(cache) \subseteq DOMAIN index

\* C9 witness: an operation has just returned an error and the cache is not
\* empty.
CacheSubsetWitness ==
    /\ last.ret = "DecodeError" /\ cache # <<>>

\* C10: a decode failure inside get, set or remove is that operation's
\* result.
NoSwallowedErrors ==
    (last.op \in {"get", "set", "remove"} /\ last.readErr) => last.ret = "DecodeError"

\* ------------------------------------------------- the step just taken
\* The kinds of step, told by the outcome recorded and the index before.
Overwrite ==
    last'.op = "set" /\ last'.appended = 1 /\ last'.key \in DOMAIN index

FreshInsert ==
    last'.op = "set" /\ last'.appended = 1 /\ last'.key \notin DOMAIN index

NoopSet == last'.op = "set" /\ last'.appended = 0

RemoveOfPresent == last'.op = "remove" /\ last'.key \in DOMAIN index

RemoveOfAbsent == last'.op = "remove" /\ last'.key \notin DOMAIN index

GetStep == last'.op = "get"

\* The step called compact with the counter at or above the threshold: the
\* rewrite either completed or aborted with the step's DecodeError.
RewriteStarted ==
    \/ last'.compacted
    \/ (last'.op \in {"set", "remove"} /\ last'.ret = "DecodeError")

\* C11: an overwrite and a remove of a present key add exactly 1 to the
\* counter (or leave it at 0 when their compaction completes); get, a fresh
\* insert, a no-op set and a failed remove leave it alone.
CounterAccounting ==
    [][/\ ((Overwrite \/ RemoveOfPresent) /\ ~last'.compacted)
              => counter' = counter + 1
       /\ ((Overwrite \/ RemoveOfPresent) /\ last'.compacted) => counter' = 0
       /\ (GetStep \/ FreshInsert \/ NoopSet \/ RemoveOfAbsent)
              => counter' = counter]_vars

\* C11 witness: an overwrite has been counted next to a key inserted fresh.
CounterAccountingWitness ==
    /\ last.op = "set" /\ last.appended = 1 /\ ~last.compacted
    /\ counter = 1 /\ Cardinality(DOMAIN index) = 2

\* C12: a rewrite starts exactly on a counted step that takes the counter
\* above the threshold; a completed compaction and open leave the counter at
\* 0; after every operation that returns Ok the counter is within
\* 0..CompactionThreshold.
CompactionTriggerAndReset ==
    [][/\ RewriteStarted <=>
              ((Overwrite \/ RemoveOfPresent) /\ counter + 1 > CompactionThreshold)
       /\ last'.compacted => counter' = 0
       /\ last'.op = "open" => counter' = 0
       /\ last'.ret = "Ok" => counter' \in 0..CompactionThreshold]_vars

MostRecent(c, key, value) ==
    LET others == SelectSeq(c, LAMBDA e : e[1] # key)
        kept == IF Len(others) >= CacheCapacity THEN Tail(others) ELSE others
    IN  Append(kept, <<key, value>>)

StartOf(recs, i) == TotalSize(SubSeq(recs, 1, i - 1))

\* The index that the records of the maximal decodable prefix stand for: a
\* key maps to the start of its last Set record, unless a Remove record of
\* the key follows that record.
FoldOf(bytes) ==
    LET recs == Records(bytes, 0)
        Sets(k) == {i \in DOMAIN recs : recs[i].type = "Set" /\ recs[i].key = k}
        LastSet(k) == CHOOSE i \in Sets(k) : \A j \in Sets(k) : j <= i
        Live(k) ==
            /\ Sets(k) # {}
            /\ \A j \in DOMAIN recs :
                   (recs[j].type = "Remove" /\ recs[j].key = k) => j < LastSet(k)
    IN  [k \in {x \in Keys : Live(x)} |-> StartOf(recs, LastSet(k))]

\* C14: open returns Ok and the index it builds is the fold of the maximal
\* decodable prefix of the file; what lies at or behind the first
\* undecodable position contributes nothing.
ReplayIsFoldOfPrefix ==
    last.op = "open" => (last.ret = "Ok" /\ index = FoldOf(log))

\* C14 witness: open on a file with a record behind a torn record, whose
\* decodable prefix holds a live key and a removed one.
ReplayWitness ==
    /\ last.op = "open"
    /\ LET recs == Records(log, 0)
       IN  /\ DecodeAt(log, TotalSize(recs) + TornBytes).ok
           /\ index # EmptyMap
           /\ \E i \in DOMAIN recs :
                  recs[i].type = "Remove" /\ recs[i].key \notin DOMAIN index
           /\ \E i \in DOMAIN recs : i > 1 /\ recs[i].type = "Set"

\* C15: unless a compaction replaces the file, a step leaves the bytes
\* already in the log where they are; a set that is not a no-op and a remove
\* of a present key append exactly their record, a set storing the log
\* length before the call in the index; get, a no-op set and a failed remove
\* append nothing.
AppendOnlyLog ==
    [][/\ ~last'.compacted =>
              (Len(log') >= Len(log) /\ SubSeq(log', 1, Len(log)) = log)
       /\ ((Overwrite \/ FreshInsert) /\ ~last'.compacted) =>
              log' = log \o Encode(SetEntry(last'.key, last'.val))
       /\ (Overwrite \/ FreshInsert) =>
              (last'.key \in DOMAIN index' /\ index'[last'.key] = Len(log))
       /\ (RemoveOfPresent /\ ~last'.compacted) =>
              log' = log \o Encode(RemoveEntry(last'.key))
       /\ (GetStep \/ NoopSet \/ RemoveOfAbsent) => log' = log]_vars

\* C15 witness: a set has appended its record to a file that an earlier
\* compaction wrote and that already held a Remove record.
AppendOnlyWitness ==
    /\ last.op = "set" /\ last.appended = 1 /\ ~last.compacted /\ rewritten
    /\ \E i \in DOMAIN Records(log, 0) : Records(log, 0)[i].type = "Remove"
    /\ index[last.key] + 9 = Len(log)

\* C16: a set or remove whose compaction was due and did not complete
\* returns the DecodeError; the log is the log before the call plus the
\* record the call appended, the index is as the call set it, and the
\* counter is one more than before and above the threshold; while the
\* counter is above the threshold every overwrite and every remove of a
\* present key starts a rewrite.
AbortedCompaction ==
    [][/\ (/\ Overwrite \/ RemoveOfPresent
           /\ counter + 1 > CompactionThreshold
           /\ ~last'.compacted)
              => (last'.ret = "DecodeError" /\ counter' = counter + 1)
       /\ (last'.op = "set" /\ last'.ret = "DecodeError") =>
              /\ log' = log \o Encode(SetEntry(last'.key, last'.val))
              /\ index' = [k \in DOMAIN index \cup {last'.key} |->
                              IF k = last'.key THEN Len(log) ELSE index[k]]
              /\ counter' > CompactionThreshold
       /\ (last'.op = "remove" /\ last'.ret = "DecodeError") =>
              /\ log' = log \o Encode(RemoveEntry(last'.key))
              /\ index' = [k \in DOMAIN index \ {last'.key} |-> index[k]]
              /\ counter' > CompactionThreshold
       /\ ((Overwrite \/ RemoveOfPresent) /\ counter > CompactionThreshold)
              => RewriteStarted]_vars

\* C16 witness: a remove has just failed in a compaction that an earlier
\* abort had left due.
AbortedCompactionWitness ==
    /\ last.op = "remove" /\ last.ret = "DecodeError"
    /\ counter > CompactionThreshold + 1

\* C17: every cached value is the value that replaying the current log
\* gives for its key.
CacheCoherent ==
    \A k \in CacheKeys(cache) :
        /\ k \in DOMAIN ReplayValues(log)
        /\ CacheValue(cache, k) = ReplayValues(log)[k]

\* The file holds an undecodable record that was there when this store
\* instance opened it: appends only add whole records, and the instance has
\* not replaced the file.
UndecodableAtOpen == ~rewritten /\ TotalSize(Records(log, 0)) < Len(log)

\* C18: on a store opened on a file with a torn record, a set(k, v) that
\* returns Ok is read back as Some(v) after reopen, and a remove(k) that
\* returns Ok is read back as None.
DurableAfterTornTail ==
    UndecodableAtOpen =>
        /\ (last.op = "set" /\ last.ret = "Ok")
              => GetAfterReopen(last.key) = Returned(last.val)
        /\ (last.op = "remove" /\ last.ret = "Ok")
              => GetAfterReopen(last.key) = Returned(None)

\* Number of records in the log, and how many of them are garbage.
RecordCount == Len(Records(log, 0))

Garbage == RecordCount - Cardinality(DOMAIN index)

\* The log holds at most |Index| records right after a completed
\* compaction, and at most |Index| + 2 * counter records in every state of
\* an instance that has compacted.
SpaceBoundByCounter ==
    /\ (last.compacted /\ last.ret = "Ok")
          => RecordCount <= Cardinality(DOMAIN index)
    /\ rewritten => RecordCount <= Cardinality(DOMAIN index) + 2 * counter

\* C19: right after a completed compaction the log holds at most |Index|
\* records; once this instance has compacted, the log holds at most
\* |Index| + 2 * counter records, and at most 2 * (threshold + 1) of them
\* are garbage.
SpaceBound ==
    /\ SpaceBoundByCounter
    /\ rewritten => Garbage <= 2 * (CompactionThreshold + 1)

\* C20: through the command-line front end the counter never exceeds 1, no
\* step starts or completes a compaction, and the log's record count never
\* decreases.
NoCompactionThroughCli ==
    [][/\ counter' <= 1
       /\ ~RewriteStarted
       /\ ~rewritten'
       /\ Len(Records(log', 0)) >= RecordCount]_vars

\* Two invocations in a row overwrote or removed a present key, which a
\* long-lived store with the threshold at 1 answers with a compaction: the
\* second one left the counter at 1 and the log at four records or more.
NoCompactionWitness ==
    /\ last.op \in {"set", "remove"} /\ last.appended = 1
    /\ counter = 1
    /\ RecordCount >= 4
    /\ RecordCount - Cardinality(DOMAIN index) >= 3

====
